---------------------------- MODULE Spec2Model ----------------------------
(***************************************************************************)
(* Model of code.py: the LED animation engine (Animation and its variants, *)
(* Led), the scene rotation, the persisted activation state and the        *)
(* cooperative scheduling of App.run.                                      *)
(*                                                                         *)
(* Time is counted in frames: one unit of `now` is 1/frame_rate second, so *)
(* elapsed = now / frame_rate and frame_number = int(frame_rate * elapsed) *)
(* = now.  Python floats are modelled as rationals <<num, den>> with       *)
(* den > 0.  The sum and the product of Animation.exec, whose operands     *)
(* differ in magnitude, are rounded to the nearest float of MantissaBits   *)
(* significant bits (ties to even), as IEEE-754 arithmetic does with 53    *)
(* bits; the other float operations are exact.  math.sin and               *)
(* math.pow(e, .) are modelled by rational approximations on a grid of     *)
(* 1/Quantum.                                                              *)
(***************************************************************************)
EXTENDS Integers, Sequences, FiniteSets, TLC

\* ------------------------------------------------------------------ bounds
MaxRunTenths == 3     \* largest run_for passed to App.run, in tenths of a minute
MaxLate == 0          \* frames a due task may be dispatched late
MaxSeed == 0          \* seeds of the random generator explored: 0..MaxSeed
GlitchLevels == 4     \* random.uniform(0, 1) yields i / GlitchLevels
Quantum == 1000       \* resolution of the transcendental functions
MaxFrame == 12        \* frame numbers 0..MaxFrame are passed to exec directly
MaxElapsed == 16      \* seconds of elapsed time explored for the rotation checks
MantissaBits == 12    \* significant bits of a float

\* --------------------------------------------------------------- constants
MAX_DUTY_CYCLE == 65535
STAR_MAX_DUTY == 16384
STATE_UNKNOWN == "UNKNOWN"
STATE_ACTIVE == "ACTIVE"
STATE_SLEEP == "SLEEP"
NoFile == "<absent>"
default_frame_rate == 25
switch_every == 15
main_fade_duration == 5
power_period_s == 5
update_period_s == 1
seconds_per_minute == 60

\* --------------------------------------------------------------- rationals
gcd[a \in Nat, b \in Nat] == IF b = 0 THEN a ELSE gcd[b, a % b]

Gcd(a, b) == gcd[a, b]

Abs(n) == IF n < 0 THEN -n ELSE n

Rat(n, d) ==
    LET g == Gcd(Abs(n), d) IN IF n = 0 THEN <<0, 1>> ELSE <<n \div g, d \div g>>

RInt(n) == Rat(n, 1)
RAdd(a, b) == Rat(a[1] * b[2] + b[1] * a[2], a[2] * b[2])
RSub(a, b) == Rat(a[1] * b[2] - b[1] * a[2], a[2] * b[2])
RMul(a, b) == Rat(a[1] * b[1], a[2] * b[2])
\* a / b for b # 0
RDiv(a, b) ==
    IF b[1] > 0 THEN Rat(a[1] * b[2], a[2] * b[1]) ELSE Rat(-(a[1] * b[2]), a[2] * (-b[1]))
RLeq(a, b) == a[1] * b[2] <= b[1] * a[2]
RLt(a, b) == a[1] * b[2] < b[1] * a[2]
RMin(a, b) == IF RLeq(a, b) THEN a ELSE b
\* math.floor
RFloor(a) == a[1] \div a[2]
\* Python int(): truncation towards zero
RTrunc(a) == IF a[1] >= 0 THEN a[1] \div a[2] ELSE -((-a[1]) \div a[2])
\* Python float %, for an integer modulus m > 0: the result is in [0, m)
RModInt(a, m) == Rat(a[1] % (m * a[2]), a[2])

Min(a, b) == IF a <= b THEN a ELSE b

\* floor(m * a) for an integer m >= 0 and a rational a in [0, 1], by long
\* multiplication in base b, which keeps the intermediate products small
MulFloor(m, a, b) ==
    LET t == (m \div b) * a[1]
        low == (t % a[2]) * b + (m % b) * a[1]
    IN  (t \div a[2]) * b + (low \div a[2])

\* ------------------------------------------------------------------ floats
Pow2[n \in Nat] == IF n = 0 THEN 1 ELSE 2 * Pow2[n - 1]

log2floor[k \in Nat] == IF k <= 1 THEN 0 ELSE 1 + log2floor[k \div 2]

\* the binary exponent of a rational a > 0: 2^e <= a < 2^(e + 1)
Exponent(a) ==
    IF a[1] >= a[2]
    THEN log2floor[a[1] \div a[2]]
    ELSE LET up[j \in Nat] == IF a[1] * Pow2[j] >= a[2] THEN j ELSE up[j + 1]
         IN  -up[1]

\* the integer nearest to a rational a >= 0, ties to the even one
RoundHalfEven(a) ==
    LET fl == a[1] \div a[2]
        twice == 2 * (a[1] % a[2])
    IN  IF twice < a[2] THEN fl
        ELSE IF twice > a[2] THEN fl + 1
        ELSE IF fl % 2 = 0 THEN fl ELSE fl + 1

\* the float nearest to a rational a >= 0
FRoundPos(a) ==
    LET sh == MantissaBits - 1 - Exponent(a)
        scaled == IF sh >= 0 THEN Rat(a[1] * Pow2[sh], a[2]) ELSE Rat(a[1], a[2] * Pow2[-sh])
        m == RoundHalfEven(scaled)
    IN  IF sh >= 0 THEN Rat(m, Pow2[sh]) ELSE Rat(m * Pow2[-sh], 1)

\* the result of a float operation whose exact value is a
FRound(a) ==
    IF a[1] = 0 THEN a
    ELSE IF a[1] > 0 THEN FRoundPos(a)
    ELSE LET r == FRoundPos(<<-a[1], a[2]>>) IN <<-r[1], r[2]>>

\* a on the grid of 1/Quantum, rounded down
Quantize(a) == Rat((a[1] * Quantum) \div a[2], Quantum)

\* -------------------------------------------------------------------- Led
LedIds == {"light_green", "star", "red", "green"}

max_duty_cycle(led) == IF led \in {"star", "green"} THEN STAR_MAX_DUTY ELSE MAX_DUTY_CYCLE

\* Led.set scaling by MAX_DUTY_CYCLE whatever the led's own ceiling
Led_set_full_scale(led, pct) ==
    LET p == RMin(pct, RInt(1))
        scaled == IF p[1] >= 0
                  THEN MulFloor(MAX_DUTY_CYCLE, p, 256)
                  ELSE RTrunc(RMul(RInt(MAX_DUTY_CYCLE), p))
    IN  Min(scaled, MAX_DUTY_CYCLE)

\* Led.set: the duty cycle written for the fraction pct
Led_set(led, pct) ==
    LET p == RMin(pct, RInt(1))
        scaled == IF p[1] >= 0
                  THEN MulFloor(max_duty_cycle(led), p, 256)
                  ELSE RTrunc(RMul(RInt(max_duty_cycle(led)), p))
    IN  Min(scaled, max_duty_cycle(led))

Led_off(led) == 0


\* -------------------------------------------------------------- Animation
\* Animation.__init__: frame_count = int(duration * frame_rate)
Animation(kind, leds, duration, frame_rate, offset, scale_max) ==
    [kind |-> kind, leds |-> leds, duration |-> duration, frame_rate |-> frame_rate,
     offset |-> offset, scale_max |-> scale_max,
     frame_count |-> RTrunc(RMul(duration, RInt(frame_rate))),
     glitch_values |-> <<>>, frames_per_glitch |-> 0,
     pct |-> RInt(1), is_set |-> FALSE]

\* Animation.set_all: every owned led is set to pct * scale_max
set_all(a, pct, dc) ==
    [l \in LedIds |-> IF l \in a.leds THEN Led_set(l, RMul(pct, a.scale_max)) ELSE dc[l]]

\* The outcome of one exec: err is "none" or the Python exception raised
Outcome(err, a, dc, wrote) == [err |-> err, anim |-> a, duty |-> dc, wrote |-> wrote]

\* math.sin(2 pi c) for c in [0, 1/2], by Bhaskara's rational approximation
\* 16 u / (5 - 4 u), u = 2c (1 - 2c); exact at c = 0, 1/4, 1/2.  Returns <<N, D>>
SinHalf(c) ==
    LET p == c[1]
        q == c[2]
        u == 2 * p * (q - 2 * p)
    IN  <<16 * u, 5 * q * q - 4 * u>>

\* Sine.render: v = (1 + sin(2 pi completed)) / 2, rounded down to 1/Quantum
Sine_value(completed) ==
    LET c == Quantize(completed)
        upper == RLeq(c, <<1, 2>>)
        s == IF upper THEN SinHalf(c) ELSE SinHalf(RSub(c, <<1, 2>>))
        n == IF upper THEN s[2] + s[1] ELSE s[2] - s[1]
    IN  Rat(MulFloor(Quantum, <<n, 2 * s[2]>>, 16), Quantum)

\* FlashAndDecay.render: v = e^(-5 completed), by 1 / (1 + x + x^2 / 2) with
\* x = 5 completed, rounded down to 1/Quantum
FlashAndDecay_value(completed) ==
    LET p == Quantize(completed)[1]
        q == Quantize(completed)[2]
    IN  Rat(MulFloor(Quantum, <<2 * q * q, 2 * q * q + 10 * p * q + 25 * p * p>>, 16), Quantum)

\* Blink.render with the test completed < 0.5
Blink_value_strict(completed) == IF RLt(completed, <<1, 2>>) THEN RInt(0) ELSE RInt(1)

\* Blink.render
Blink_value(completed) == IF RLeq(completed, <<1, 2>>) THEN RInt(0) ELSE RInt(1)

\* RandomGlitch.render: the segment index
glitch_index(a, frame_in_animation) ==
    RFloor(RDiv(frame_in_animation, RInt(a.frames_per_glitch)))

\* RandomGlitch.render with the next level not taken circularly: the last
\* segment holds its level
RandomGlitch_value_no_wrap(a, frame_in_animation) ==
    LET gi == glitch_index(a, frame_in_animation)
        g1 == a.glitch_values[gi + 1]
        g2 == a.glitch_values[Min(gi + 1, Len(a.glitch_values) - 1) + 1]
        step == RDiv(RSub(g2, g1), RInt(a.frames_per_glitch))
        steps == RSub(frame_in_animation, RInt(gi * a.frames_per_glitch))
    IN  RAdd(g1, RMul(steps, step))

\* RandomGlitch.render: the interpolated level
RandomGlitch_value(a, frame_in_animation) ==
    LET gi == glitch_index(a, frame_in_animation)
        g1 == a.glitch_values[gi + 1]
        g2 == a.glitch_values[((gi + 1) % Len(a.glitch_values)) + 1]
        step == RDiv(RSub(g2, g1), RInt(a.frames_per_glitch))
        steps == RSub(frame_in_animation, RInt(gi * a.frames_per_glitch))
    IN  RAdd(g1, RMul(steps, step))

\* render of each variant, dispatched on the class
render(a, frame_in_animation, completed, dc) ==
    CASE a.kind = "Sine" ->
            Outcome("none", a, set_all(a, Sine_value(completed), dc), TRUE)
      [] a.kind = "FlashAndDecay" ->
            Outcome("none", a, set_all(a, FlashAndDecay_value(completed), dc), TRUE)
      [] a.kind = "Blink" ->
            Outcome("none", a, set_all(a, Blink_value(completed), dc), TRUE)
      [] a.kind = "RandomGlitch" ->
            IF a.frames_per_glitch = 0
            THEN Outcome("ZeroDivisionError", a, dc, FALSE)
            ELSE IF glitch_index(a, frame_in_animation) >= Len(a.glitch_values)
            THEN Outcome("IndexError", a, dc, FALSE)
            ELSE Outcome("none", a, set_all(a, RandomGlitch_value(a, frame_in_animation), dc), TRUE)
      [] a.kind = "Static" ->
            IF ~a.is_set
            THEN Outcome("none", [a EXCEPT !.is_set = TRUE], set_all(a, a.pct, dc), TRUE)
            ELSE Outcome("none", a, dc, FALSE)
      [] OTHER -> Outcome("NotImplementedError", a, dc, FALSE)

\* Animation.exec: the frame's position in the animation
frame_in_animation_of(a, frame_number) ==
    FRound(RModInt(FRound(RAdd(RInt(frame_number),
                               FRound(RMul(a.offset, RInt(a.frame_rate))))),
                   a.frame_count))

\* Animation.exec
exec(a, frame_number, dc) ==
    IF a.frame_count = 0
    THEN Outcome("ZeroDivisionError", a, dc, FALSE)
    ELSE LET fia == frame_in_animation_of(a, frame_number)
         IN  render(a, fia, RDiv(fia, RInt(a.frame_count)), dc)

\* ------------------------------------------------------- the constructors
Sine(leds, duration, frame_rate, offset) ==
    Animation("Sine", leds, duration, frame_rate, offset, RInt(1))

FlashAndDecay(leds, duration, frame_rate, offset) ==
    Animation("FlashAndDecay", leds, duration, frame_rate, offset, RInt(1))

Blink(leds, duration, frame_rate, offset) ==
    Animation("Blink", leds, duration, frame_rate, offset, RInt(1))

Static(pct, leds, duration, frame_rate, offset) ==
    [Animation("Static", leds, duration, frame_rate, offset, RInt(1)) EXCEPT !.pct = pct]

\* RandomGlitch.__init__: the glitch duration used (0 selects duration / 10)
glitch_duration_of(duration, glitch_duration) ==
    IF glitch_duration[1] = 0 THEN RDiv(duration, RInt(10)) ELSE glitch_duration

\* RandomGlitch.__init__: the number of levels drawn, len(glitch_values) for
\* range(int(duration / glitch_duration)); needs glitch_duration_of # 0
glitch_count(duration, glitch_duration) ==
    LET k == RTrunc(RDiv(duration, glitch_duration_of(duration, glitch_duration)))
    IN  IF k < 0 THEN 0 ELSE k

\* RandomGlitch.__init__: "none" or the exception the constructor raises
RandomGlitch_error(duration, frame_rate, glitch_duration) ==
    IF glitch_duration_of(duration, glitch_duration)[1] = 0
    THEN "ZeroDivisionError"
    ELSE LET k == glitch_count(duration, glitch_duration)
             frame_count == RTrunc(RMul(duration, RInt(frame_rate)))
         IN  IF k = 0 THEN "ZeroDivisionError"
             ELSE IF frame_count % k # 0 THEN "ValueError"
             ELSE "none"

\* RandomGlitch.__init__ when it succeeds; levels[i] is the i-th value drawn
\* from random.uniform(0, 1)
RandomGlitch(leds, duration, frame_rate, glitch_duration, offset, levels) ==
    LET base == Animation("RandomGlitch", leds, duration, frame_rate, offset, RInt(1))
        k == glitch_count(duration, glitch_duration)
    IN  [base EXCEPT !.glitch_values = [i \in 1..k |-> levels[i]],
                     !.frames_per_glitch = base.frame_count \div k]


\* ----------------------------------------------------------------- state
VARIABLES
    pc,                 \* "boot", "constructed", "looping", "halted", "crashed", "harness"
    file,               \* content of last_state.txt, or NoFile
    usb,                \* is_usb_connected()
    run_for,            \* the argument of App.run, minutes (a rational)
    seed,               \* seed of the random generator at construction
    current_animation,  \* App.current_animation
    duty,               \* duty cycle of each led's PWM output
    now,                \* monotonic time since App.start, in frames
    next_draw,          \* time the next draw_frame is due
    next_update,        \* time the next update_animation_set is due
    next_power,         \* time the next print_power is due
    fired,              \* number of times the one-shot shutdown task has run
    last_op,            \* the last operation of the program
    wrote_file,         \* what last_op did to the file: "none", "written", "dropped"
    prev_scene,         \* current_animation before the last rotation check
    late_checks,        \* rotation checks made with elapsed > 2: 0, 1, 2 = more
    drawing,            \* the call of draw_frame in progress, or NoDraw
    h_args,             \* the arguments of the last constructor call, or NoArgs
    h_anim,             \* the animation instance constructed, or NoAnim
    h_err,              \* exception raised by the last constructor call, or "none"
    h_last,             \* the last exec call on h_anim, or NoCall
    h_writes            \* set_all calls made by h_anim: 0, 1, 2 = more

app_vars == <<pc, file, usb, run_for, seed, current_animation, duty, now,
              next_draw, next_update, next_power, fired, last_op, wrote_file,
              prev_scene, late_checks, drawing>>
h_vars == <<h_args, h_anim, h_err, h_last, h_writes>>
vars == <<pc, file, usb, run_for, seed, current_animation, duty, now,
          next_draw, next_update, next_power, fired, last_op, wrote_file,
          prev_scene, late_checks, drawing, h_args, h_anim, h_err, h_last, h_writes>>

NoAnim == [kind |-> "none"]
NoArgs == [kind |-> "none"]
NoCall == [frame |-> -1, err |-> "none", wrote |-> FALSE]
NoDraw == [pos |-> -1]
AllOff == [l \in LedIds |-> Led_off(l)]

\* ------------------------------------------------------------------- App
frame_rate == default_frame_rate

\* the i-th value random.uniform(0, 1) returns for the n-th generator draw
\* sequence started from seed s: a value in [0, 1)
uniform(s, n, i) == Rat(((s + 1) * (7 * i + 3 * n + 1)) % GlitchLevels, GlitchLevels)

levels_of(s, n) == [i \in 1..10 |-> uniform(s, n, i)]

\* App.__init__: candle
candle(s) ==
    RandomGlitch({"star"}, RInt(2), frame_rate,
                 RMul(Rat(1, frame_rate), RInt(5)), RInt(0), levels_of(s, 0))

\* App.__init__: self.animations for the generator seed s
animations(s) ==
    << << FlashAndDecay(LedIds, RInt(2), frame_rate, RInt(0)) >>,
       << Blink({"green", "light_green"}, RInt(1), frame_rate, RInt(0)),
          Blink({"red"}, RInt(1), frame_rate, Rat(1, 2)),
          candle(s) >>,
       << Sine({"green"}, RInt(main_fade_duration), frame_rate, RInt(0)),
          Sine({"red"}, RInt(main_fade_duration), frame_rate, Rat(main_fade_duration, 2)),
          candle(s) >>,
       << RandomGlitch({"red"}, RInt(4), frame_rate, RInt(0), RInt(0), levels_of(s, 1)),
          RandomGlitch({"green"}, RInt(4), frame_rate, RInt(0), RInt(0), levels_of(s, 2)),
          RandomGlitch({"light_green"}, RInt(2), frame_rate, RInt(0), RInt(0), levels_of(s, 3)),
          candle(s) >>,
       << Blink(LedIds, RInt(1), frame_rate, RInt(0)) >>,
       << FlashAndDecay(LedIds, RInt(2), frame_rate, RInt(0)) >> >>

\* a function with every value computed, once
Tabulated(f) == f @@ <<>>

\* self.animations, for each seed
scene_table == Tabulated([s \in 0..MaxSeed |-> animations(s)])

\* App.__init__: the exception a RandomGlitch constructor of the table raises
animations_error ==
    LET errs == { RandomGlitch_error(RInt(2), frame_rate, RMul(Rat(1, frame_rate), RInt(5))),
                  RandomGlitch_error(RInt(4), frame_rate, RInt(0)),
                  RandomGlitch_error(RInt(2), frame_rate, RInt(0)) }
    IN  IF errs = {"none"} THEN "none" ELSE CHOOSE e \in errs : e # "none"

\* App.get_last_state
get_last_state == IF file = NoFile THEN STATE_UNKNOWN ELSE file

\* set_state without the USB test
set_state_unguarded(state) == state

\* App.set_state: the file after the call
set_state(state) == IF usb THEN file ELSE state

\* App.set_state: whether the write was made or dropped
set_state_effect == IF usb THEN "dropped" ELSE "written"

\* the run lengths explored, minutes
RunFors == {Rat(t, 10) : t \in 1..MaxRunTenths}

\* the delay taken as Duration.of_seconds(run_for), in frames
shutdown_delay_of_seconds(r) == RTrunc(RMul(RInt(frame_rate), r))

\* Duration.of_minutes(run_for), in frames
shutdown_delay_of(r) == RTrunc(RMul(RInt(seconds_per_minute * frame_rate), r))

\* the module entry: App().run(run_for=60 * 4)
entry_run_for == 60 * 4

shutdown_table ==
    Tabulated([r \in RunFors \cup {RInt(entry_run_for)} |-> shutdown_delay_of(r)])

shutdown_delay == shutdown_table[run_for]

\* the last frame number a boot can reach
LastFrame == shutdown_delay_of(Rat(MaxRunTenths, 10)) + MaxLate

\* the last reading of the clock, in frames
LastClock == IF LastFrame > MaxElapsed * frame_rate THEN LastFrame ELSE MaxElapsed * frame_rate

\* what the properties of App read at each value of the monotonic clock:
\* elapsed (seconds), frame_number, and int(elapsed % switch_every)
clock ==
    Tabulated([n \in 0..LastClock |->
        LET e == Rat(n, frame_rate)
        IN  [elapsed |-> e,
             frame_number |-> RTrunc(RMul(RInt(frame_rate), e)),
             in_period |-> RTrunc(RModInt(e, switch_every)),
             warming_up |-> RLeq(e, RInt(2))]])

\* App.elapsed, seconds
elapsed == clock[now].elapsed

\* App.frame_number
frame_number == clock[now].frame_number

IdleHarness ==
    h_args = NoArgs /\ h_anim = NoAnim /\ h_err = "none" /\ h_last = NoCall /\ h_writes = 0

Init ==
    /\ pc = "boot"
    /\ file \in {NoFile, STATE_ACTIVE, STATE_SLEEP}
    /\ usb \in BOOLEAN
    /\ run_for \in RunFors
    /\ seed = 0
    /\ current_animation = 0
    /\ duty = AllOff
    /\ now = 0 /\ next_draw = 0 /\ next_update = 0 /\ next_power = 0 /\ fired = 0
    /\ last_op = "boot" /\ wrote_file = "none"
    /\ prev_scene = 0 /\ late_checks = 0
    /\ IdleHarness
    /\ drawing = NoDraw

\* init_state_file that creates nothing
init_state_file_skipped == file

\* App.init_state_file: the file after the call
init_state_file == IF file = NoFile THEN set_state(STATE_ACTIVE) ELSE file

\* App.blank
blank == [l \in LedIds |-> Led_off(l)]

\* App.__init__ (called by the module entry)
Construct ==
    /\ pc = "boot"
    /\ \E s \in 0..MaxSeed : seed' = s
    /\ IF ~usb
       THEN /\ file' = init_state_file
            /\ wrote_file' = IF file = NoFile THEN set_state_effect ELSE "none"
       ELSE /\ file' = file
            /\ wrote_file' = "none"
    /\ duty' = blank
    /\ current_animation' = 0
    /\ pc' = IF animations_error = "none" THEN "constructed" ELSE "crashed"
    /\ last_op' = "init"
    /\ UNCHANGED <<usb, run_for, now, next_draw, next_update, next_power, fired,
                   prev_scene, late_checks>>
    /\ UNCHANGED h_vars
    /\ UNCHANGED drawing

\* the startup test with the power test inverted
startup_halts_on_usb == get_last_state = STATE_ACTIVE /\ usb

\* App.run: the startup test that calls halt() before anything is scheduled
startup_halts == get_last_state = STATE_ACTIVE /\ ~usb

\* the wake transition left out
startup_wake_skipped == file

\* App.run: the wake transition, the file after it
startup_wake == IF get_last_state = STATE_SLEEP THEN set_state(STATE_ACTIVE) ELSE file

\* App.run, up to loop.run(): either halt() raises HaltException, which the
\* module entry catches to sleep forever, or the four tasks are scheduled
Run ==
    /\ pc = "constructed"
    /\ IF startup_halts
       THEN /\ file' = set_state(STATE_SLEEP)
            /\ wrote_file' = set_state_effect
            /\ duty' = blank
            /\ pc' = "halted"
            /\ last_op' = "run_halt"
       ELSE /\ file' = startup_wake
            /\ wrote_file' = IF get_last_state = STATE_SLEEP THEN set_state_effect ELSE "none"
            /\ duty' = duty
            /\ pc' = "looping"
            /\ last_op' = "run"
    /\ now' = 0 /\ next_draw' = 0 /\ next_update' = 0 /\ next_power' = 0 /\ fired' = 0
    /\ UNCHANGED <<usb, run_for, seed, current_animation, prev_scene, late_checks>>
    /\ UNCHANGED h_vars
    /\ UNCHANGED drawing

\* a task due at `due` has waited as long as the loop lets it wait
overdue(due) == now >= due + MaxLate

\* time passes while the loop sleeps until the next task is due
Tick ==
    /\ pc = "looping"
    /\ ~overdue(next_draw) /\ ~overdue(next_update) /\ ~overdue(next_power)
    /\ ~(fired = 0 /\ overdue(shutdown_delay))
    /\ now' = now + 1
    /\ UNCHANGED <<pc, file, usb, run_for, seed, current_animation, duty,
                   next_draw, next_update, next_power, fired, last_op, wrote_file,
                   prev_scene, late_checks>>
    /\ UNCHANGED h_vars
    /\ UNCHANGED drawing

\* App.draw_frame: exec of each animation of the scene, in order, from the
\* first on; an exception ends the frame with the writes made so far
draw_scene(scene, frame, d) ==
    LET after[i \in 0..Len(scene)] ==
            IF i = 0
            THEN [err |-> "none", duty |-> d, done |-> 0]
            ELSE IF after[i - 1].err # "none"
                 THEN after[i - 1]
                 ELSE LET o == exec(scene[i], frame, after[i - 1].duty)
                      IN  [err |-> o.err, duty |-> o.duty,
                           done |-> IF o.err = "none" THEN i ELSE i - 1]
    IN  after[Len(scene)]

\* the leds owned by the first n animations of a scene
scene_leds(scene, n) == UNION {scene[i].leds : i \in 1..n}

\* App.draw_frame for each seed, scene and frame number, on blank leds: the
\* animations of self.animations keep no state between frames, so what a
\* frame writes depends on nothing else
frame_table ==
    Tabulated([s \in 0..MaxSeed |->
        Tabulated([c \in 0..(Len(scene_table[s]) - 1) |->
            Tabulated([f \in 0..LastFrame |->
                LET o == draw_scene(scene_table[s][c + 1], f, AllOff)
                IN  [err |-> o.err, duty |-> Tabulated(o.duty),
                     written |-> scene_leds(scene_table[s][c + 1], o.done)]])])])

\* App.draw_frame: the leds of the animations executed are overwritten
draw_frame ==
    LET overwrite(e) ==
            [err |-> e.err,
             duty |-> [l \in LedIds |-> IF l \in e.written THEN e.duty[l] ELSE duty[l]]]
    IN  overwrite(frame_table[seed][current_animation][frame_number])

\* the loop dispatches draw_frame, scheduled with frequency = frame_rate
DrawFrame ==
    /\ pc = "looping"
    /\ next_draw <= now
    /\ \E o \in {draw_frame} :
          /\ duty' = o.duty
          /\ pc' = IF o.err = "none" THEN "looping" ELSE "crashed"
    /\ next_draw' = next_draw + 1
    /\ last_op' = "draw"
    /\ wrote_file' = "none"
    /\ UNCHANGED <<file, usb, run_for, seed, current_animation, now,
                   next_update, next_power, fired, prev_scene, late_checks>>
    /\ UNCHANGED h_vars
    /\ UNCHANGED drawing

\* App.update_animation_set: int(self.elapsed % self.switch_every)
elapsed_in_period == clock[now].in_period

\* the early return taken for self.elapsed < 2 only
warming_up_strict == RLt(clock[now].elapsed, RInt(2))

\* App.update_animation_set: self.elapsed <= 2
warming_up == clock[now].warming_up

\* update_animation_set that wraps to the first scene of the table
update_animation_set_wraps_to_zero ==
    IF warming_up
    THEN current_animation
    ELSE IF current_animation = 0 \/ elapsed_in_period = 0
         THEN IF current_animation + 1 >= Len(scene_table[seed])
              THEN 0
              ELSE current_animation + 1
         ELSE current_animation

\* App.update_animation_set: the scene index after the call
update_animation_set ==
    IF warming_up
    THEN current_animation
    ELSE IF current_animation = 0 \/ elapsed_in_period = 0
         THEN IF current_animation + 1 >= Len(scene_table[seed])
              THEN 1
              ELSE current_animation + 1
         ELSE current_animation

\* update_animation_set that blanks the leds when it changes the scene
UpdateAnimationSet_blanks ==
    /\ pc = "looping"
    /\ next_update <= now
    /\ current_animation' = update_animation_set
    /\ duty' = IF current_animation' # current_animation THEN blank ELSE duty
    /\ prev_scene' = current_animation
    /\ late_checks' = IF warming_up THEN late_checks ELSE Min(late_checks + 1, 2)
    /\ next_update' = next_update + update_period_s * frame_rate
    /\ last_op' = "update"
    /\ wrote_file' = "none"
    /\ UNCHANGED <<pc, file, usb, run_for, seed, now, next_draw, next_power, fired>>
    /\ UNCHANGED h_vars
    /\ UNCHANGED drawing

\* the loop dispatches update_animation_set, scheduled every second
UpdateAnimationSet ==
    /\ pc = "looping"
    /\ next_update <= now
    /\ current_animation' = update_animation_set
    /\ prev_scene' = current_animation
    /\ late_checks' = IF warming_up THEN late_checks ELSE Min(late_checks + 1, 2)
    /\ next_update' = next_update + update_period_s * frame_rate
    /\ last_op' = "update"
    /\ wrote_file' = "none"
    /\ UNCHANGED <<pc, file, usb, run_for, seed, duty, now, next_draw, next_power, fired>>
    /\ UNCHANGED h_vars
    /\ UNCHANGED drawing

\* the loop dispatches print_power, scheduled every 5 seconds: it only reads
\* the sensors and prints
PrintPower ==
    /\ pc = "looping"
    /\ next_power <= now
    /\ next_power' = next_power + power_period_s * frame_rate
    /\ last_op' = "power"
    /\ wrote_file' = "none"
    /\ UNCHANGED <<pc, file, usb, run_for, seed, current_animation, duty, now,
                   next_draw, next_update, fired, prev_scene, late_checks>>
    /\ UNCHANGED h_vars
    /\ UNCHANGED drawing

\* halt() that returns instead of raising HaltException
Shutdown_returns ==
    /\ pc = "looping"
    /\ fired = 0
    /\ shutdown_delay <= now
    /\ file' = set_state(STATE_SLEEP)
    /\ wrote_file' = set_state_effect
    /\ duty' = blank
    /\ pc' = "looping"
    /\ fired' = fired + 1
    /\ last_op' = "shutdown"
    /\ UNCHANGED <<usb, run_for, seed, current_animation, now,
                   next_draw, next_update, next_power, prev_scene, late_checks>>
    /\ UNCHANGED h_vars
    /\ UNCHANGED drawing

\* halt() that leaves the leds as they are
Shutdown_without_blank ==
    /\ pc = "looping"
    /\ fired = 0
    /\ shutdown_delay <= now
    /\ file' = set_state(STATE_SLEEP)
    /\ wrote_file' = set_state_effect
    /\ duty' = duty
    /\ pc' = "halted"
    /\ fired' = fired + 1
    /\ last_op' = "shutdown"
    /\ UNCHANGED <<usb, run_for, seed, current_animation, now,
                   next_draw, next_update, next_power, prev_scene, late_checks>>
    /\ UNCHANGED h_vars
    /\ UNCHANGED drawing

\* the loop dispatches the one-shot halt(), scheduled run_for minutes later:
\* HaltException leaves loop.run() and the module entry sleeps forever
Shutdown ==
    /\ pc = "looping"
    /\ fired = 0
    /\ shutdown_delay <= now
    /\ file' = set_state(STATE_SLEEP)
    /\ wrote_file' = set_state_effect
    /\ duty' = blank
    /\ pc' = "halted"
    /\ fired' = fired + 1
    /\ last_op' = "shutdown"
    /\ UNCHANGED <<usb, run_for, seed, current_animation, now,
                   next_draw, next_update, next_power, prev_scene, late_checks>>
    /\ UNCHANGED h_vars
    /\ UNCHANGED drawing

\* the USB cable is plugged or unplugged
UsbChange ==
    /\ pc # "harness"
    /\ usb' = ~usb
    /\ UNCHANGED <<pc, file, run_for, seed, current_animation, duty, now,
                   next_draw, next_update, next_power, fired, last_op, wrote_file,
                   prev_scene, late_checks>>
    /\ UNCHANGED h_vars
    /\ UNCHANGED drawing

\* the reset button: the board restarts and runs the module entry again; the
\* PWM outputs and the program's memory are cleared, the file is kept
Reset ==
    /\ pc \in {"constructed", "looping", "halted", "crashed"}
    /\ pc' = "boot"
    /\ seed' = 0
    /\ current_animation' = 0
    /\ duty' = AllOff
    /\ now' = 0 /\ next_draw' = 0 /\ next_update' = 0 /\ next_power' = 0 /\ fired' = 0
    /\ last_op' = "boot" /\ wrote_file' = "none"
    /\ prev_scene' = 0 /\ late_checks' = 0
    /\ UNCHANGED <<file, usb, run_for>>
    /\ UNCHANGED h_vars
    /\ UNCHANGED drawing

Next ==
    \/ Construct
    \/ Run
    \/ Tick
    \/ DrawFrame
    \/ UpdateAnimationSet
    \/ PrintPower
    \/ Shutdown
    \/ UsbChange
    \/ Reset

Spec == Init /\ [][Next]_vars


\* the loop never stops while it runs: it dispatches a task that is due, or
\* sleeps until the next one is due (Tick is disabled while a task is overdue)
LoopStep == Tick \/ DrawFrame \/ UpdateAnimationSet \/ PrintPower \/ Shutdown

\* one boot: the module entry runs once and the board is not reset
NextBoot ==
    \/ Construct
    \/ Run
    \/ Tick
    \/ DrawFrame
    \/ UpdateAnimationSet
    \/ PrintPower
    \/ Shutdown
    \/ UsbChange

BootSpec == Init /\ [][NextBoot]_vars /\ WF_vars(LoopStep)

\* ------------------------------------------- the rotation check, called
\* App.update_animation_set is called at any moment of a run: the loop has
\* started (App.start is set) and the clock advances between the calls
RotationInit ==
    /\ pc = "rotation"
    /\ file = STATE_ACTIVE
    /\ usb = FALSE
    /\ run_for = Rat(1, 10)
    /\ seed = 0
    /\ current_animation = 0
    /\ duty = AllOff
    /\ now = 0 /\ next_draw = 0 /\ next_update = 0 /\ next_power = 0 /\ fired = 0
    /\ last_op = "run" /\ wrote_file = "none"
    /\ prev_scene = 0 /\ late_checks = 0
    /\ IdleHarness
    /\ drawing = NoDraw

\* time.monotonic_ns() advances by one frame period
Elapse ==
    /\ pc = "rotation"
    /\ now < MaxElapsed * frame_rate
    /\ now' = now + 1
    /\ last_op' = "elapse"
    /\ UNCHANGED <<pc, file, usb, run_for, seed, current_animation, duty,
                   next_draw, next_update, next_power, fired, wrote_file,
                   prev_scene, late_checks>>
    /\ UNCHANGED h_vars
    /\ UNCHANGED drawing

\* one call of App.update_animation_set
RotationCheck ==
    /\ pc = "rotation"
    /\ current_animation' = update_animation_set
    /\ prev_scene' = current_animation
    /\ late_checks' = IF warming_up THEN late_checks ELSE Min(late_checks + 1, 2)
    /\ last_op' = "update"
    /\ UNCHANGED <<pc, file, usb, run_for, seed, duty, now,
                   next_draw, next_update, next_power, fired, wrote_file>>
    /\ UNCHANGED h_vars
    /\ UNCHANGED drawing

RotationNext ==
    \/ Elapse
    \/ RotationCheck

RotationSpec == RotationInit /\ [][RotationNext]_vars

\* --------------------------------------------- the animation classes, called
\* the least float above 1/2
HalfNext == Rat(Pow2[MantissaBits - 1] + 1, Pow2[MantissaBits])

\* the arguments passed to the constructors: <<duration, frame_rate>>, offset,
\* glitch_duration, leds and pct
HTimings == { <<RInt(1), 4>>, <<Rat(3, 2), 4>>, <<Rat(1, 2), 4>>, <<Rat(1, 8), 4>>,
              <<RInt(0), 25>>, <<RInt(1), 25>>, <<RInt(2), 25>> }
HOffsets == { RInt(0), Rat(1, 2), HalfNext, FRound(Rat(1, 3)), Rat(-1, 4) }
HGlitchDurations == { RInt(0), Rat(1, 5), Rat(1, 2), RInt(3) }
HLeds == { {"red"}, {"star", "light_green"} }
HPcts == { RInt(1), Rat(1, 2) }
HKinds == {"Sine", "FlashAndDecay", "Blink", "Static", "RandomGlitch"}

\* the instance a constructor call returns when it raises nothing
construct(args) ==
    CASE args.kind = "Sine" ->
            Sine(args.leds, args.duration, args.frame_rate, args.offset)
      [] args.kind = "FlashAndDecay" ->
            FlashAndDecay(args.leds, args.duration, args.frame_rate, args.offset)
      [] args.kind = "Blink" ->
            Blink(args.leds, args.duration, args.frame_rate, args.offset)
      [] args.kind = "Static" ->
            Static(args.pct, args.leds, args.duration, args.frame_rate, args.offset)
      [] args.kind = "RandomGlitch" ->
            RandomGlitch(args.leds, args.duration, args.frame_rate,
                         args.glitch_duration, args.offset, levels_of(0, 1))

\* the exception a constructor call raises, or "none"
construct_error(args) ==
    IF args.kind = "RandomGlitch"
    THEN RandomGlitch_error(args.duration, args.frame_rate, args.glitch_duration)
    ELSE "none"

AnimInit ==
    /\ pc = "harness"
    /\ file = STATE_ACTIVE
    /\ usb = FALSE
    /\ run_for = Rat(1, 10)
    /\ seed = 0
    /\ current_animation = 0
    /\ duty = AllOff
    /\ now = 0 /\ next_draw = 0 /\ next_update = 0 /\ next_power = 0 /\ fired = 0
    /\ last_op = "boot" /\ wrote_file = "none"
    /\ prev_scene = 0 /\ late_checks = 0
    /\ IdleHarness
    /\ drawing = NoDraw

\* one animation is constructed on registered leds
HConstruct ==
    /\ pc = "harness"
    /\ h_args = NoArgs
    /\ \E kind \in HKinds, t \in HTimings, offset \in HOffsets, leds \in HLeds,
          pct \in HPcts, gd \in HGlitchDurations :
          /\ kind # "Static" => pct = RInt(1)
          /\ kind # "RandomGlitch" => gd = RInt(0)
          /\ h_args' = [kind |-> kind, leds |-> leds, duration |-> t[1],
                        frame_rate |-> t[2], offset |-> offset,
                        glitch_duration |-> gd, pct |-> pct]
    /\ h_err' = construct_error(h_args')
    /\ h_anim' = IF h_err' = "none" THEN construct(h_args') ELSE NoAnim
    /\ last_op' = "construct"
    /\ UNCHANGED <<h_last, h_writes>>
    /\ UNCHANGED <<pc, file, usb, run_for, seed, current_animation, duty, now,
                   next_draw, next_update, next_power, fired, wrote_file,
                   prev_scene, late_checks, drawing>>

\* the frame numbers passed to exec: the first ones, and the frame one period
\* after the last call
HFrames ==
    (0..MaxFrame) \cup
    (IF h_last.frame \in 0..MaxFrame THEN {h_last.frame + h_anim.frame_count} ELSE {})

\* one call of exec on the instance; out is what the call wrote to each led
\* (-1: nothing)
HExec ==
    /\ pc = "harness"
    /\ h_anim # NoAnim
    /\ \E f \in HFrames :
          \E o \in {exec(h_anim, f, duty)} :
              /\ h_anim' = o.anim
              /\ duty' = o.duty
              /\ h_last' = [frame |-> f, err |-> o.err, wrote |-> o.wrote,
                            out |-> [l \in LedIds |->
                                        IF o.wrote /\ l \in h_anim.leds
                                        THEN o.duty[l] ELSE -1]]
              /\ h_writes' = IF o.wrote THEN Min(h_writes + 1, 2) ELSE h_writes
    /\ last_op' = "exec"
    /\ UNCHANGED <<h_args, h_err>>
    /\ UNCHANGED <<pc, file, usb, run_for, seed, current_animation, now,
                   next_draw, next_update, next_power, fired, wrote_file,
                   prev_scene, late_checks, drawing>>

\* Led.on by another owner of the leds (the leds are shared between
\* animations and scenes)
OtherWriter ==
    /\ pc = "harness"
    /\ h_anim # NoAnim
    /\ duty' = [l \in LedIds |-> max_duty_cycle(l)]
    /\ duty' # duty
    /\ last_op' = "on"
    /\ UNCHANGED h_vars
    /\ UNCHANGED drawing
    /\ UNCHANGED <<pc, file, usb, run_for, seed, current_animation, now,
                   next_draw, next_update, next_power, fired, wrote_file,
                   prev_scene, late_checks, drawing>>

AnimNext ==
    \/ HConstruct
    \/ HExec
    \/ OtherWriter

AnimSpec == AnimInit /\ [][AnimNext]_vars

\* ------------------------------------------- the module entry, by the minute
\* App().run(run_for=60 * 4): the boot of the reference configuration.  Only
\* the clock and the one-shot task are followed: the periodic tasks of a whole
\* minute are one step, which leaves the leds as they are
EntryInit ==
    /\ pc = "boot"
    /\ file \in {NoFile, STATE_ACTIVE, STATE_SLEEP}
    /\ usb \in BOOLEAN
    /\ run_for = RInt(entry_run_for)
    /\ seed = 0
    /\ current_animation = 0
    /\ duty = AllOff
    /\ now = 0 /\ next_draw = 0 /\ next_update = 0 /\ next_power = 0 /\ fired = 0
    /\ last_op = "boot" /\ wrote_file = "none"
    /\ prev_scene = 0 /\ late_checks = 0
    /\ IdleHarness
    /\ drawing = NoDraw

\* loop.run() for one minute in which the one-shot task is not yet due
RunMinute ==
    /\ pc = "looping"
    /\ fired = 0
    /\ now < shutdown_delay
    /\ now' = now + seconds_per_minute * frame_rate
    /\ next_draw' = now' /\ next_update' = now' /\ next_power' = now'
    /\ last_op' = "minute"
    /\ wrote_file' = "none"
    /\ UNCHANGED <<pc, file, usb, run_for, seed, current_animation, duty, fired,
                   prev_scene, late_checks>>
    /\ UNCHANGED h_vars
    /\ UNCHANGED drawing

EntryNext ==
    \/ Construct
    \/ Run
    \/ RunMinute
    \/ Shutdown
    \/ UsbChange

EntrySpec == EntryInit /\ [][EntryNext]_vars


\* ------------------------------------------- draw_frame, one exec at a time
\* One boot in which a call of draw_frame is followed statement by statement:
\* pc = "drawing" while control is inside the coroutine.  draw_frame has no
\* await, so the loop gets control back, and dispatches another task, only
\* when the coroutine returns or raises; the monotonic clock advances
\* meanwhile.
FrameInit ==
    /\ pc = "boot"
    /\ file = STATE_SLEEP
    /\ usb = FALSE
    /\ run_for = Rat(MaxRunTenths, 10)
    /\ seed = 0
    /\ current_animation = 0
    /\ duty = AllOff
    /\ now = 0 /\ next_draw = 0 /\ next_update = 0 /\ next_power = 0 /\ fired = 0
    /\ last_op = "boot" /\ wrote_file = "none"
    /\ prev_scene = 0 /\ late_checks = 0
    /\ IdleHarness
    /\ drawing = NoDraw

\* a task due at `due` is late: a pass of the loop runs every task that is due,
\* so a late task runs before draw_frame is called again
late(due) == now > due + MaxLate

\* App.draw_frame: frame = self.frame_number, and the list
\* self.animations[self.current_animation] the for statement iterates over
DrawFrameBegin ==
    /\ pc = "looping"
    /\ next_draw <= now
    /\ ~late(next_update) /\ ~late(next_power) /\ ~(fired = 0 /\ late(shutdown_delay))
    /\ pc' = "drawing"
    /\ drawing' = [pos |-> 0, frame |-> frame_number, scene |-> current_animation,
                   before |-> duty, frames_used |-> {}, scenes_used |-> {}]
    /\ last_op' = "draw_begin"
    /\ wrote_file' = "none"
    /\ UNCHANGED <<file, usb, run_for, seed, current_animation, duty, now,
                   next_draw, next_update, next_power, fired, prev_scene, late_checks>>
    /\ UNCHANGED h_vars

\* the frame number draw_frame would pass if it read the clock at each exec
exec_frame_reread == frame_number

\* App.draw_frame: the frame number passed to animation.exec
exec_frame == drawing.frame

\* the clock advances while draw_frame runs: by one frame period at most, and
\* only while the loop is not already a frame behind
TickInFrame ==
    /\ pc = "drawing"
    /\ now <= drawing.frame
    /\ now <= next_draw
    /\ now < LastFrame
    /\ now' = now + 1
    /\ UNCHANGED <<pc, file, usb, run_for, seed, current_animation, duty,
                   next_draw, next_update, next_power, fired, last_op, wrote_file,
                   prev_scene, late_checks>>
    /\ UNCHANGED h_vars
    /\ UNCHANGED drawing

\* App.draw_frame: one iteration of the for statement, animation.exec(frame);
\* an exception leaves draw_frame and the loop
DrawFrameExec ==
    /\ pc = "drawing"
    /\ drawing.pos < Len(scene_table[seed][drawing.scene + 1])
    /\ \E o \in {exec(scene_table[seed][drawing.scene + 1][drawing.pos + 1],
                      exec_frame, duty)} :
          /\ duty' = o.duty
          /\ pc' = IF o.err = "none" THEN "drawing" ELSE "crashed"
          /\ drawing' = IF o.err = "none"
                        THEN [drawing EXCEPT !.pos = @ + 1,
                                             !.frames_used = @ \cup {exec_frame},
                                             !.scenes_used = @ \cup {drawing.scene}]
                        ELSE NoDraw
    /\ last_op' = "draw_exec"
    /\ UNCHANGED <<file, usb, run_for, seed, current_animation, now,
                   next_draw, next_update, next_power, fired, wrote_file,
                   prev_scene, late_checks>>
    /\ UNCHANGED h_vars

\* App.draw_frame returns: the loop has control again
DrawFrameReturn ==
    /\ pc = "drawing"
    /\ drawing.pos = Len(scene_table[seed][drawing.scene + 1])
    /\ pc' = "looping"
    /\ drawing' = NoDraw
    /\ next_draw' = next_draw + 1
    /\ last_op' = "draw"
    /\ UNCHANGED <<file, usb, run_for, seed, current_animation, duty, now,
                   next_update, next_power, fired, wrote_file, prev_scene, late_checks>>
    /\ UNCHANGED h_vars

FrameNext ==
    \/ Construct
    \/ Run
    \/ Tick
    \/ TickInFrame
    \/ DrawFrameBegin
    \/ DrawFrameExec
    \/ DrawFrameReturn
    \/ UpdateAnimationSet
    \/ PrintPower
    \/ Shutdown

FrameSpec == FrameInit /\ [][FrameNext]_vars


\* ------------------------------------------------- boots on the battery
\* A device with a state file that is never externally powered: the reset
\* button is pressed at any moment, any number of times
BatteryInit ==
    /\ pc = "boot"
    /\ file \in {STATE_ACTIVE, STATE_SLEEP}
    /\ usb = FALSE
    /\ run_for \in RunFors
    /\ seed = 0
    /\ current_animation = 0
    /\ duty = AllOff
    /\ now = 0 /\ next_draw = 0 /\ next_update = 0 /\ next_power = 0 /\ fired = 0
    /\ last_op = "boot" /\ wrote_file = "none"
    /\ prev_scene = 0 /\ late_checks = 0
    /\ IdleHarness
    /\ drawing = NoDraw

BatteryNext ==
    \/ Construct
    \/ Run
    \/ Tick
    \/ DrawFrame
    \/ UpdateAnimationSet
    \/ PrintPower
    \/ Shutdown
    \/ Reset

BatterySpec == BatteryInit /\ [][BatteryNext]_vars


\* ------------------------------------------------------------- properties
\* a step of App.run: the process leaves "constructed" other than by a reset
RunStep == pc = "constructed" /\ pc' \notin {"constructed", "boot"}

\* C1: a boot that finds ACTIVE persisted while not externally powered halts
\* in App.run: it persists SLEEP, every channel is 0 and the halt signal is
\* raised; and in a boot halted at startup no task is ever scheduled or run
\* (no task has a due time, none has run, the clock was never started).
C1_StartupHaltStep ==
    (RunStep /\ file = STATE_ACTIVE /\ ~usb)
        => (pc' = "halted" /\ file' = STATE_SLEEP /\ duty' = AllOff /\ last_op' = "run_halt")

C1_NothingScheduled ==
    last_op = "run_halt"
        => /\ pc = "halted"
           /\ file = STATE_SLEEP
           /\ duty = AllOff
           /\ now = 0 /\ next_draw = 0 /\ next_update = 0 /\ next_power = 0 /\ fired = 0

C1_StartupHalt == [][C1_StartupHaltStep]_vars /\ []C1_NothingScheduled

C1_Witness == last_op = "run_halt" /\ pc = "halted" /\ file = STATE_SLEEP /\ ~usb

\* C2 (as claimed): a boot that found no state file while not externally
\* powered (so that the constructor wrote ACTIVE) and is still not externally
\* powered in App.run reads UNKNOWN there and proceeds to schedule the tasks.
C2_FirstBootRuns ==
    [][(RunStep /\ last_op = "init" /\ wrote_file = "written" /\ ~usb)
        => (get_last_state = STATE_UNKNOWN /\ pc' = "looping")]_vars

\* C3 (as claimed): a boot that finds SLEEP persisted persists ACTIVE and
\* proceeds to schedule, whatever the power state.
C3_WakeAnyPower ==
    [][(RunStep /\ file = STATE_SLEEP) => (pc' = "looping" /\ file' = STATE_ACTIVE)]_vars

\* C3 (amended): a boot that finds SLEEP persisted proceeds to schedule the
\* tasks whatever the power state; the persisted state becomes ACTIVE when the
\* device is not externally powered and stays SLEEP when it is.
C3_WakeStep ==
    (RunStep /\ file = STATE_SLEEP)
        => /\ pc' = "looping"
           /\ last_op' = "run"
           /\ file' = IF usb THEN STATE_SLEEP ELSE STATE_ACTIVE
           /\ wrote_file' = IF usb THEN "dropped" ELSE "written"

C3_Wake == [][C3_WakeStep]_vars

C3_Witness == pc = "looping" /\ last_op = "run" /\ wrote_file = "dropped" /\ file = STATE_SLEEP

\* C4: while the device is externally powered no operation changes the
\* persisted state, whatever it is, and none fails: the writes of the
\* constructor, of the wake transition and of halt are dropped.
C4_UsbWritesDropped == [][usb => (file' = file /\ pc' # "crashed")]_vars

C4_Witness == wrote_file = "dropped" /\ last_op = "shutdown" /\ pc = "halted"

\* C5: once the loop has started it ends; it ends only by the shutdown task
\* raising the halt signal, which runs once and not before
\* Duration.of_minutes(run_for) since the start; and while the loop runs
\* draw_frame has been called once per frame period elapsed (it is never
\* more than MaxLate frames behind the clock).
C5_EndsByShutdownStep ==
    (pc = "looping" /\ pc' # "looping")
        => /\ pc' = "halted"
           /\ last_op' = "shutdown"
           /\ fired = 0 /\ fired' = 1
           /\ now >= shutdown_delay

C5_RenderCadence ==
    pc = "looping" => (now - MaxLate <= next_draw /\ next_draw <= now + 1 /\ fired = 0)

C5_Terminates ==
    /\ (pc = "looping") ~> (pc = "halted")
    /\ [][C5_EndsByShutdownStep]_vars
    /\ [](fired <= 1)
    /\ []C5_RenderCadence

C5_Witness == pc = "halted" /\ last_op = "shutdown" /\ fired = 1 /\ now >= shutdown_delay

\* the scene that follows scene c in the rotation
C6_Successor(c) == IF c = Len(scene_table[seed]) - 1 THEN 1 ELSE c + 1

\* C6: the scene index is always a valid index of the scene table; once it
\* has left 0 it never returns to 0; and whenever it changes it advances by
\* 1, wrapping from the last scene to scene 1.
C6_IndexValid == current_animation \in 0..(Len(scene_table[seed]) - 1)

C6_IndexStep ==
    /\ current_animation # 0 => current_animation' # 0
    /\ current_animation' # current_animation
          => current_animation' = C6_Successor(current_animation)

C6_SceneIndex == []C6_IndexValid /\ [][C6_IndexStep]_vars

C6_Witness == last_op = "update" /\ prev_scene = Len(scene_table[seed]) - 1 /\ current_animation = 1

\* C7: a rotation check with elapsed <= 2 changes nothing; the first check
\* with elapsed > 2 finds scene 0 and advances to scene 1; every later check
\* advances the scene if floor(elapsed) mod 15 = 0 and leaves it otherwise.
C7_CheckStep ==
    last_op' = "update"
        => IF now <= 2 * frame_rate
           THEN current_animation' = current_animation
           ELSE IF late_checks = 0
           THEN current_animation = 0 /\ current_animation' = 1
           ELSE IF (now \div frame_rate) % switch_every = 0
           THEN current_animation' = C6_Successor(current_animation)
           ELSE current_animation' = current_animation

C7_RotationRule == [][C7_CheckStep]_vars

C7_Witness ==
    /\ last_op = "update" /\ late_checks = 2
    /\ prev_scene = 1 /\ current_animation = 2
    /\ now \div frame_rate = switch_every

\* C8 (as claimed): for an animation other than Static, a call of exec one
\* period (frame_count frames) after the previous call writes the same duty
\* cycles to the same leds, and raises the same exception if any.
C8_Periodic ==
    [][(last_op' = "exec" /\ h_anim.kind # "Static" /\ h_last.frame >= 0
        /\ h_last'.frame = h_last.frame + h_anim.frame_count)
            => (h_last'.out = h_last.out /\ h_last'.err = h_last.err)]_vars

\* C9 (as claimed): on a Static instance the first call of exec writes pct to
\* the instance's leds, and every later call writes nothing.
C9_StaticOnce ==
    [][(last_op' = "exec" /\ h_anim.kind = "Static")
        => IF h_last = NoCall
           THEN /\ h_last'.wrote
                /\ \A l \in h_anim.leds : duty'[l] = Led_set(l, h_anim.pct)
           ELSE /\ ~h_last'.wrote
                /\ duty' = duty]_vars

\* C10 (as claimed): the construction of a RandomGlitch either succeeds or
\* raises the configuration error (ValueError); with k =
\* floor(duration / glitch_duration) it raises it when frame_count mod k # 0
\* and otherwise succeeds with k levels and frame_count / k frames per
\* segment (10 segments of 5 frames for duration 2, frame rate 25 and
\* glitch duration 1/5).
C10_Construction ==
    h_args.kind = "RandomGlitch"
        => /\ h_err \in {"none", "ValueError"}
           /\ (h_args.duration = RInt(2) /\ h_args.frame_rate = 25
                  /\ h_args.glitch_duration = Rat(1, 5))
                 => (h_err = "none" /\ Len(h_anim.glitch_values) = 10
                        /\ h_anim.frames_per_glitch = 5)
           /\ IF glitch_duration_of(h_args.duration, h_args.glitch_duration)[1] = 0
              THEN TRUE
              ELSE LET k == glitch_count(h_args.duration, h_args.glitch_duration)
                       fc == RTrunc(RMul(h_args.duration, RInt(h_args.frame_rate)))
                   IN  IF k = 0 THEN TRUE
                       ELSE IF fc % k # 0 THEN h_err = "ValueError"
                       ELSE /\ h_err = "none"
                            /\ Len(h_anim.glitch_values) = k
                            /\ h_anim.frames_per_glitch = fc \div k

\* a Blink instance lights its leds at frame f (the duty cycle written is not 0)
C11_On(a, f) == \E l \in a.leds : exec(a, f, AllOff).duty[l] # 0

\* the frames n of from..to with the leds dark at n and lit at n + 1
C11_Rises(a, from, to) == {n \in from..to : ~C11_On(a, n) /\ C11_On(a, n + 1)}

\* each exec of a Blink writes 0 to its leds when frame_in_animation /
\* frame_count <= 1/2 and the full duty cycle of each led otherwise
C11_ExecStep ==
    (last_op' = "exec" /\ h_anim.kind = "Blink" /\ h_last'.err = "none")
        => LET fia == frame_in_animation_of(h_anim, h_last'.frame)
               low == RLeq(RMul(RInt(2), fia), RInt(h_anim.frame_count))
           IN  /\ h_last'.wrote
               /\ \A l \in h_anim.leds :
                     /\ h_last'.out[l] = IF low THEN 0 ELSE max_duty_cycle(l)
                     /\ duty'[l] = h_last'.out[l]

\* C11 (as claimed): each exec of a Blink writes exactly 0 for completed in
\* [0, 0.5] and exactly 1 for completed in (0.5, 1), and the frames of the
\* first period, 0..frame_count, hold exactly one change from 0 to 1.
C11_OneRisePerPeriod ==
    (last_op = "construct" /\ h_anim.kind = "Blink" /\ h_anim.frame_count >= 1)
        => Cardinality(C11_Rises(h_anim, 0, h_anim.frame_count - 1)) = 1

\* C11 (amended): each exec of a Blink writes exactly 0 for completed in
\* [0, 0.5] and exactly 1 for completed in (0.5, 1); any frame_count + 1
\* consecutive frames hold at most one change from 0 to 1 (none at all for a
\* Blink of frame_count <= 2 whose offset is a whole number of frames).
C11_AtMostOneRise ==
    (last_op = "construct" /\ h_anim.kind = "Blink" /\ h_anim.frame_count >= 1)
        => /\ \A n \in 0..MaxFrame :
                 Cardinality(C11_Rises(h_anim, n, n + h_anim.frame_count - 1)) <= 1
           /\ (h_anim.frame_count <= 2
                  /\ RMul(h_anim.offset, RInt(h_anim.frame_rate))[2] = 1)
                 => C11_Rises(h_anim, 0, MaxFrame) = {}

C11_BinaryBlink == [][C11_ExecStep]_vars /\ []C11_AtMostOneRise

C11_Witness ==
    /\ last_op = "exec" /\ h_anim.kind = "Blink" /\ h_anim.frame_count = 2
    /\ h_last.err = "none" /\ h_last.out["red"] = MAX_DUTY_CYCLE


\* C12 (as claimed): in the boot of the module entry the one-shot shutdown
\* fires 4 minutes after the scheduler starts.
C12_FourMinutes ==
    [][(pc = "looping" /\ last_op' = "shutdown")
        => now = 4 * seconds_per_minute * frame_rate]_vars

\* C12 (amended): in the boot of the module entry the one-shot shutdown fires
\* 240 minutes (4 hours) after the scheduler starts, and not before.
C12_FourHours ==
    [][(pc = "looping" /\ pc' # "looping")
        => (last_op' = "shutdown" /\ now = 4 * 60 * seconds_per_minute * frame_rate)]_vars

C12_Witness ==
    /\ pc = "halted" /\ last_op = "shutdown" /\ fired = 1
    /\ now = 4 * 60 * seconds_per_minute * frame_rate


\* C13: when the one-shot shutdown task fires it persists SLEEP if the device
\* is not externally powered (the write is dropped if it is), sets every
\* channel to 0 and raises the halt signal; from then on, for the rest of the
\* boot, no task runs: every channel stays at 0 and the persisted state stays
\* what the shutdown left (SLEEP when it was written).
C13_ShutdownStep ==
    (pc = "looping" /\ last_op' = "shutdown")
        => /\ pc' = "halted"
           /\ duty' = AllOff
           /\ file' = IF usb THEN file ELSE STATE_SLEEP
           /\ wrote_file' = IF usb THEN "dropped" ELSE "written"

C13_AfterHaltStep ==
    (pc = "halted" /\ last_op = "shutdown")
        => /\ pc' = "halted" /\ last_op' = "shutdown"
           /\ duty' = duty /\ file' = file
           /\ next_draw' = next_draw /\ next_update' = next_update
           /\ next_power' = next_power /\ fired' = fired

C13_Halted ==
    (pc = "halted" /\ last_op = "shutdown")
        => (duty = AllOff /\ (wrote_file = "written" => file = STATE_SLEEP))

C13_TimedShutdown ==
    [][C13_ShutdownStep]_vars /\ [][C13_AfterHaltStep]_vars /\ []C13_Halted

C13_Witness ==
    /\ pc = "halted" /\ last_op = "shutdown" /\ wrote_file = "written"
    /\ file = STATE_SLEEP /\ duty = AllOff /\ usb


\* C14: a call of draw_frame runs to completion before any other task is
\* dispatched: while it runs the scene index does not change and the shutdown
\* does not run; every exec of the call is passed the one frame number read at
\* the start and belongs to the one scene current at the start; and what the
\* call has written when it returns is what that scene writes at that frame.
C14_InFrameStep ==
    pc = "drawing"
        => /\ pc' \in {"drawing", "looping", "crashed"}
           /\ current_animation' = current_animation
           /\ fired' = fired /\ file' = file
           /\ next_update' = next_update /\ next_power' = next_power
           /\ pc' = "drawing" => (drawing'.frame = drawing.frame /\ drawing'.scene = drawing.scene)

C14_OneFrameOneScene ==
    pc = "drawing"
        => /\ drawing.scene = current_animation
           /\ drawing.frames_used \subseteq {drawing.frame}
           /\ drawing.scenes_used \subseteq {current_animation}

C14_ReturnStep ==
    (pc = "drawing" /\ pc' = "looping")
        => LET e == frame_table[seed][drawing.scene][drawing.frame]
           IN  /\ e.err = "none"
               /\ duty' = [l \in LedIds |->
                              IF l \in e.written THEN e.duty[l] ELSE drawing.before[l]]

C14_NoInterleaving ==
    [][C14_InFrameStep]_vars /\ []C14_OneFrameOneScene /\ [][C14_ReturnStep]_vars

C14_Witness ==
    /\ pc = "drawing" /\ drawing.pos = 2 /\ drawing.scene = 2
    /\ now = drawing.frame + 1 /\ drawing.frames_used = {drawing.frame}


\* the level a RandomGlitch of k levels and fpg frames per segment reaches at
\* position fia of its segment i, between level i and the next one, circularly
C15_Level(a, i) == a.glitch_values[(i % Len(a.glitch_values)) + 1]

C15_Value(a, fia, i) ==
    RAdd(C15_Level(a, i),
         RDiv(RMul(RSub(fia, RInt(i * a.frames_per_glitch)),
                   RSub(C15_Level(a, i + 1), C15_Level(a, i))),
              RInt(a.frames_per_glitch)))

\* C15: an exec of a RandomGlitch whose frame_in_animation is in
\* [0, frame_count) raises nothing; the segment index
\* floor(frame_in_animation / frames_per_glitch) is a valid index of the k
\* levels (k * frames_per_glitch = frame_count); the value written is level[i]
\* + (frame_in_animation - i * frames_per_glitch) * (level[i + 1 mod k] -
\* level[i]) / frames_per_glitch, which is level[i] at the start of the
\* segment and lies between the two levels.
C15_RenderStep ==
    (last_op' = "exec" /\ h_anim.kind = "RandomGlitch" /\ h_anim.frame_count >= 1)
        => LET fia == frame_in_animation_of(h_anim, h_last'.frame)
               k == Len(h_anim.glitch_values)
               fpg == h_anim.frames_per_glitch
               i == fia[1] \div (fia[2] * fpg)
               v == C15_Value(h_anim, fia, i)
               lo == RMin(C15_Level(h_anim, i), C15_Level(h_anim, i + 1))
               hi == IF lo = C15_Level(h_anim, i)
                     THEN C15_Level(h_anim, i + 1) ELSE C15_Level(h_anim, i)
           IN  RLt(fia, RInt(h_anim.frame_count))
                  => /\ fpg >= 1 /\ k * fpg = h_anim.frame_count
                     /\ i \in 0..(k - 1)
                     /\ h_last'.err = "none" /\ h_last'.wrote
                     /\ \A l \in h_anim.leds :
                           h_last'.out[l] = Led_set(l, v) /\ duty'[l] = Led_set(l, v)
                     /\ fia = RInt(i * fpg) => v = C15_Level(h_anim, i)
                     /\ RLeq(lo, v) /\ RLeq(v, hi)

C15_Interpolation == [][C15_RenderStep]_vars

C15_Witness ==
    /\ last_op = "exec" /\ h_anim.kind = "RandomGlitch"
    /\ h_last.err = "none" /\ h_last.wrote
    /\ LET fia == frame_in_animation_of(h_anim, h_last.frame)
           k == Len(h_anim.glitch_values)
       IN  /\ glitch_index(h_anim, fia) = k - 1
           /\ fia # RInt((k - 1) * h_anim.frames_per_glitch)
           /\ C15_Level(h_anim, k - 1) # C15_Level(h_anim, 0)
           /\ h_last.out["red"] # Led_set("red", C15_Level(h_anim, k - 1))


\* the ceiling each channel is registered with
C16_Ceiling(l) == IF l \in {"star", "green"} THEN STAR_MAX_DUTY ELSE MAX_DUTY_CYCLE

\* C16: in every reachable state of the program, whatever the scene, the
\* frame number and the power state, the duty cycle of each channel lies
\* between 0 and the ceiling the channel was registered with.
C16_DutyInRange == \A l \in LedIds : duty[l] \in 0..C16_Ceiling(l)

C16_Witness ==
    /\ pc = "looping" /\ last_op = "draw" /\ current_animation = 1
    /\ duty["star"] \in 1..(STAR_MAX_DUTY - 1)
    /\ duty["red"] = MAX_DUTY_CYCLE
    /\ duty["green"] = 0


\* C17 (as claimed): every constructed Animation has frame_count =
\* int(duration * frame_rate), which is at least 1, and no exec on it divides
\* by zero.
C17_FrameCount ==
    h_anim # NoAnim
        => /\ h_anim.frame_count = RTrunc(RMul(h_args.duration, RInt(h_args.frame_rate)))
           /\ h_anim.frame_count >= 1
           /\ h_last.err # "ZeroDivisionError"


\* C18 (as claimed): over any sequence of boots, each with any power state,
\* once a boot has completed its startup (the loop runs, or the boot has
\* halted) the persisted state reads ACTIVE or SLEEP, never UNKNOWN.
C18_NeverUnknownAgain ==
    pc \in {"looping", "halted"} => get_last_state \in {STATE_ACTIVE, STATE_SLEEP}

\* C18 (amended): over any sequence of boots the only values ever written to
\* the persisted store are ACTIVE and SLEEP, and only while not externally
\* powered; a state file that exists is never removed; and a boot whose
\* constructor runs while not externally powered leaves the persisted state
\* ACTIVE or SLEEP, so that it never reads UNKNOWN again.  (A device without
\* a state file that boots externally powered keeps reading UNKNOWN.)
C18_WriteStep ==
    /\ file' # file => (file' \in {STATE_ACTIVE, STATE_SLEEP} /\ ~usb)
    /\ file # NoFile => file' # NoFile
    /\ (pc = "boot" /\ pc' # "boot" /\ ~usb) => file' \in {STATE_ACTIVE, STATE_SLEEP}

C18_PersistedValues == [][C18_WriteStep]_vars

C18_Witness ==
    /\ pc = "constructed" /\ last_op = "init" /\ ~usb
    /\ wrote_file = "written" /\ file = STATE_ACTIVE


\* C19: on a device that has a state file and stays on the battery, the
\* persisted state is ACTIVE whenever the scheduler loop is running and SLEEP
\* whenever the boot has halted; a reset and the constructor of the next boot
\* keep it; and App.run halts at startup when it finds ACTIVE and starts the
\* loop when it finds SLEEP.  So a reset during the run makes the next boot
\* halt at startup, and a reset after a halt makes the next boot run.
C19_StateWhileRunning ==
    /\ pc = "looping" => file = STATE_ACTIVE
    /\ pc = "halted" => file = STATE_SLEEP
    /\ pc \in {"boot", "constructed", "looping", "halted"}

C19_BootStep ==
    /\ pc' \in {"boot", "constructed"} => file' = file
    /\ (RunStep /\ file = STATE_ACTIVE) => (pc' = "halted" /\ last_op' = "run_halt")
    /\ (RunStep /\ file = STATE_SLEEP) => (pc' = "looping" /\ last_op' = "run")
    /\ (pc = "looping" /\ pc' = "boot") => file' = STATE_ACTIVE
    /\ (pc = "halted" /\ pc' = "boot") => file' = STATE_SLEEP

C19_ButtonToggle == []C19_StateWhileRunning /\ [][C19_BootStep]_vars

C19_Witness ==
    /\ pc = "looping" /\ file = STATE_ACTIVE /\ ~usb
    /\ last_op = "draw" /\ now = frame_rate /\ current_animation = 0


\* the channels the animations of scene c target
C20_Targets(c) ==
    UNION {scene_table[seed][c + 1][i].leds : i \in 1..Len(scene_table[seed][c + 1])}

\* C20: within a boot, a rotation check (the step that moves next_update)
\* changes nothing but the scene index and the scheduler's bookkeeping: no
\* channel and no persisted state; and a frame (the step that moves
\* next_draw) leaves every channel that no animation of the current scene
\* targets as it was, so after a rotation such a channel keeps the last
\* intensity the previous scene wrote.
C20_RotationStep ==
    (pc = "looping" /\ pc' # "boot" /\ next_update' # next_update)
        => /\ duty' = duty /\ file' = file /\ wrote_file' = "none"
           /\ pc' = pc /\ usb' = usb /\ fired' = fired /\ next_draw' = next_draw

C20_DrawStep ==
    (pc = "looping" /\ pc' # "boot" /\ next_draw' # next_draw)
        => \A l \in LedIds \ C20_Targets(current_animation) : duty'[l] = duty[l]

C20_NothingBlanked == [][C20_RotationStep]_vars /\ [][C20_DrawStep]_vars

C20_Witness ==
    /\ pc = "looping" /\ last_op = "draw"
    /\ current_animation = 2 /\ prev_scene = 1
    /\ "light_green" \notin C20_Targets(current_animation)
    /\ duty["light_green"] = MAX_DUTY_CYCLE


=============================================================================
